---- MODULE Spec2Model ----
(***************************************************************************)
(* getcdnimages: the batch downloader (bin/cdn-dl.js) and the image relay  *)
(* (server.js and its 1.1 revision, unnamed/part_000).                     *)
(*                                                                         *)
(* Two independent programs over one set of variables: SpecDownloader and  *)
(* SpecRetry step only the downloader's variables (one explores the        *)
(* --concurrency option, the other --retry), SpecRelay only the relay's.   *)
(***************************************************************************)
EXTENDS Integers, Sequences, FiniteSets, TLC

VARIABLES
    \* ---- downloader (bin/cdn-dl.js) ----
    argv,       \* the command line: --concurrency / --retry tokens and the URLs
    opts,       \* parseArgs(argv): concurrency, retries
    queue,      \* main: queue (the URLs, in order)
    mainPc,     \* main: "start", "running", "exited"
    idx,        \* main: next unclaimed queue index (0-based, as in the code)
    active,     \* main: number of downloadOne calls in flight
    results,    \* main: results, in completion order
    workers,    \* the promise chains started by Promise.all, one record each
    files,      \* the output directory: the set of paths that exist
    hist,       \* per queue index: fetches issued, waits slept, paths created, ...
    faultsLeft, \* how many more failures the upstream may produce in this run
    exitCode,   \* process.exit code, -1 while running
    \* ---- relay (server.js, unnamed/part_000) ----
    rq,         \* the client request and the relay variant that serves it
    rpc,        \* position of the request's handler
    sp,         \* the URLSearchParams handed to proxyImage
    timer,      \* the abort timer: "unset", "armed", "fired", "cleared"
    fetches,    \* number of upstream fetches issued for the request
    resp,       \* the upstream response: status, declared type, body
    reads,      \* number of reads done on the upstream body
    firstChunk, \* proxyImage: firstChunk (part_000)
    outType,    \* proxyImage: outType (part_000), ctype (server.js)
    res,        \* the client response: status lines, content-type, body, ...
    timeoutMs,  \* proxyImage: timeoutMs, the delay given to setTimeout
    headers,    \* proxyImage: headers, the headers of the upstream fetch
    reqId,      \* proxyImage: reqId (part_000), 0 before newReqId()
    bytes,      \* gen: bytes (part_000)
    log         \* the lines written by logLine, in order (part_000)

dlVars == <<argv, opts, queue, mainPc, idx, active, results, workers, files,
            hist, faultsLeft, exitCode>>
relayVars == <<rq, rpc, sp, timer, fetches, resp, reads, firstChunk, outType, res,
               timeoutMs, headers, reqId, bytes, log>>
vars == <<dlVars, relayVars>>

----------------------------------------------------------------------------
(* Strings the code inspects character by character are tuples of           *)
(* one-character strings.                                                   *)

UpperLetters == <<"A","B","C","D","E","F","G","H","I","J","K","L","M",
                  "N","O","P","Q","R","S","T","U","V","W","X","Y","Z">>
LowerLetters == <<"a","b","c","d","e","f","g","h","i","j","k","l","m",
                  "n","o","p","q","r","s","t","u","v","w","x","y","z">>

toLowerChar(c) ==
    IF \E k \in 1..Len(UpperLetters) : UpperLetters[k] = c
    THEN LowerLetters[CHOOSE k \in 1..Len(UpperLetters) : UpperLetters[k] = c]
    ELSE c

\* String.prototype.toLowerCase
toLowerCase(s) == [k \in 1..Len(s) |-> toLowerChar(s[k])]

\* String.prototype.startsWith
startsWith(s, prefix) ==
    /\ Len(s) >= Len(prefix)
    /\ \A k \in 1..Len(prefix) : s[k] = prefix[k]

ImageSlash == <<"i","m","a","g","e","/">>

----------------------------------------------------------------------------
(* JavaScript numbers as far as the options need them: an integer, an       *)
(* integer plus one half, or NaN.                                           *)

NaN == [nan |-> TRUE, fl |-> 0, half |-> FALSE]
Whole(n) == [nan |-> FALSE, fl |-> n, half |-> FALSE]
PlusHalf(n) == [nan |-> FALSE, fl |-> n, half |-> TRUE]

\* ToBoolean of a number: 0 and NaN are falsy
Truthy(x) == ~x.nan /\ ~(x.fl = 0 /\ ~x.half)

\* k <= x for an integer k
IntLE(k, x) == ~x.nan /\ k <= x.fl

\* Math.min(x, n) for an integer n
MathMin(x, n) == IF x.nan THEN NaN ELSE IF x.fl < n THEN x ELSE Whole(n)

\* Math.max(x, n) for an integer n
MathMax(x, n) == IF x.nan THEN NaN ELSE IF x.fl >= n THEN x ELSE Whole(n)

\* ToLength, as Array.from({ length }) applies it
ToLength(x) == IF x.nan \/ x.fl < 0 THEN 0 ELSE x.fl

\* Number(token) for the tokens of the model
Number(tok) ==
    CASE tok = "0"   -> Whole(0)
      [] tok = "1"   -> Whole(1)
      [] tok = "2"   -> Whole(2)
      [] tok = "-1"  -> Whole(-1)
      [] tok = "0.5" -> PlusHalf(0)
      [] tok = "2.5" -> PlusHalf(2)
      [] tok = ""    -> Whole(0)
      [] tok = "999" -> Whole(999)
      [] tok = "5000" -> Whole(5000)
      [] tok = "120001" -> Whole(120001)
      [] OTHER       -> NaN

----------------------------------------------------------------------------
(* Outbound headers: the helpers of parseArgs (bin/cdn-dl.js) and           *)
(* parseHeadersFromQuery (server.js, unnamed/part_000). A headers object is *)
(* the sequence of its [k, v] entries in insertion order.                   *)

\* String.prototype.indexOf(c), 0-based, -1 when c does not occur
indexOf(s, c) ==
    IF \E k \in 1..Len(s) : s[k] = c
    THEN (CHOOSE k \in 1..Len(s) : s[k] = c /\ \A j \in 1..(k - 1) : s[j] # c) - 1
    ELSE -1

\* String.prototype.slice(from, to), 0-based, to exclusive
slice(s, from, to) == SubSeq(s, from + 1, to)

\* String.prototype.trim (the strings of the model hold no other white space)
trim(s) ==
    LET inked == {k \in 1..Len(s) : s[k] # " "}
    IN  IF inked = {} THEN <<>>
        ELSE SubSeq(s, CHOOSE k \in inked : \A j \in inked : k <= j,
                       CHOOSE k \in inked : \A j \in inked : k >= j)

CookieName == <<"C","o","o","k","i","e">>
CookieLower == <<"c","o","o","k","i","e">>
AuthorizationName == <<"A","u","t","h","o","r","i","z","a","t","i","o","n">>
RefererName == <<"R","e","f","e","r","e","r">>
OriginName == <<"O","r","i","g","i","n">>
AcceptName == <<"A","c","c","e","p","t">>
UserAgentName == <<"U","s","e","r","-","A","g","e","n","t">>
BearerPrefix == <<"B","e","a","r","e","r"," ">>
BasicPrefix == <<"B","a","s","i","c"," ">>
SemiSpace == <<";"," ">>

\* the defaults of part_000; they are never inspected, so each is one piece
DefaultAccept == <<"image/avif,image/webp,image/*;q=0.9,*/*;q=0.8">>
DefaultUserAgent == <<"Mozilla/5.0 (Windows NT 10.0; Win64; x64) AppleWebKit/537.36 (KHTML, like Gecko) Chrome/124 Safari/537.36">>

\* k in headers
HasKey(hs, k) == \E i \in 1..Len(hs) : hs[i].k = k

\* headers[k], <<>> when undefined
Get(hs, k) == IF HasKey(hs, k) THEN hs[CHOOSE i \in 1..Len(hs) : hs[i].k = k].v ELSE <<>>

\* headers[k] = v
Set(hs, k, v) ==
    IF HasKey(hs, k)
    THEN [i \in 1..Len(hs) |-> IF hs[i].k = k THEN [k |-> k, v |-> v] ELSE hs[i]]
    ELSE Append(hs, [k |-> k, v |-> v])

\* (headers['Cookie'] ? headers['Cookie'] + '; ' : '') + v
CookieJoined(hs, v) ==
    (IF Get(hs, CookieName) # <<>> THEN Get(hs, CookieName) \o SemiSpace ELSE <<>>) \o v

\* every auth value gets the prefix
AuthorizationAlways(auth) == BearerPrefix \o auth

\* auth.startsWith('Bearer ') || auth.startsWith('Basic ') ? auth : `Bearer ${auth}`
Authorization(auth) ==
    IF startsWith(auth, BearerPrefix) \/ startsWith(auth, BasicPrefix) THEN auth
    ELSE BearerPrefix \o auth

\* a supplied header-related input: a query parameter of the relay, a flag of
\* the downloader
HeaderTexts == {<<"C","o","o","k","i","e",":"," ","a">>, <<"c","o","o","k","i","e",":","b">>, <<"X","-","A",":"," ","1">>, <<"x">>, <<":"," ","x">>, <<"A","u","t","h","o","r","i","z","a","t","i","o","n",":"," ","x">>}
CookieTexts == {<<"c">>, <<"d">>}
AuthTexts == {<<"t">>, <<"B","e","a","r","e","r"," ","t">>, <<"B","a","s","i","c"," ","t">>, <<"b","e","a","r","e","r"," ","t">>, <<>>}

Inputs ==
    [name : {"header"}, v : HeaderTexts] \cup [name : {"cookie"}, v : CookieTexts]
    \cup [name : {"auth"}, v : AuthTexts] \cup [name : {"referer"}, v : {<<"r">>}]
    \cup [name : {"origin"}, v : {<<"o">>}]

\* at most this many header-related inputs in a request or command line
MaxInputs == 2

\* URLSearchParams.getAll(name)
getAll(fields, name) ==
    LET picked == SelectSeq(fields, LAMBDA f : f.name = name)
    IN  [i \in 1..Len(picked) |-> picked[i].v]

----------------------------------------------------------------------------
(* Downloader: parseArgs                                                    *)

\* SpecDownloader: the worker pool, under an upstream that rarely fails
MaxUrls == 2
MaxFaults == 1
\* SpecRetry: the retry loop, under an upstream that may fail every attempt
RetryMaxUrls == 1
RetryMaxFaults == 3

DefaultConcurrency == 4
DefaultRetries == 2

\* what may follow --concurrency ("absent": the flag is not given)
ConcurrencyArgs == {"absent", "-1", "0.5", "1", "2.5"}
\* what may follow --retry
RetryArgs == {"absent", "0", "-1", "0.5", "1", "abc"}

\* the URLs of the model, by their path: "/a.jpg" is served without a
\* content-disposition, "/get" with filename="a.jpg"
Urls == {"/a.jpg", "/get"}

RECURSIVE SeqsUpTo(_, _)
SeqsUpTo(S, n) ==
    IF n = 0 THEN {<<>>}
    ELSE LET shorter == SeqsUpTo(S, n - 1)
         IN  shorter \cup {Append(q, u) : q \in {t \in shorter : Len(t) = n - 1}, u \in S}

\* the URL lists of the model, up to n URLs; a list starts with "/a.jpg"
UrlLists(n) == {q \in SeqsUpTo(Urls, n) : q = <<>> \/ q[1] = "/a.jpg"}

\* the command lines of the model: up to n URLs, --concurrency followed by one
\* of cs and --retry by one of rs
CommandLines(n, cs, rs) == [urls : UrlLists(n), concurrency : cs, retry : rs, flags : {<<>>}]

\* the flag that supplies an input
FlagName(name) ==
    CASE name = "header"  -> "--header"
      [] name = "cookie"  -> "--cookie"
      [] name = "auth"    -> "--auth"
      [] name = "referer" -> "--referer"
      [] name = "origin"  -> "--origin"

\* the flags that supply a sequence of inputs, in the same order
Flags(inputs) == [i \in 1..Len(inputs) |-> [name |-> FlagName(inputs[i].name), v |-> inputs[i].v]]

\* one turn of the switch in parseArgs, for a header-related flag
ArgHeader(hs, f) ==
    CASE f.name = "--header" ->
            IF f.v # <<>> /\ indexOf(f.v, ":") > 0
            THEN Set(hs, trim(slice(f.v, 0, indexOf(f.v, ":"))),
                         trim(slice(f.v, indexOf(f.v, ":") + 1, Len(f.v))))
            ELSE hs
      [] f.name = "--cookie" ->
            IF f.v # <<>> THEN Set(hs, CookieName, CookieJoined(hs, f.v)) ELSE hs
      [] f.name = "--auth" ->
            IF f.v # <<>> THEN Set(hs, AuthorizationName, Authorization(f.v)) ELSE hs
      [] f.name = "--referer" -> Set(hs, RefererName, f.v)
      [] f.name = "--origin" -> Set(hs, OriginName, f.v)

\* o.headers after the loop over argv
RECURSIVE ArgHeaders(_, _)
ArgHeaders(hs, flags) ==
    IF flags = <<>> THEN hs ELSE ArgHeaders(ArgHeader(hs, Head(flags)), Tail(flags))

\* Number(next() || d) || d
NumberOption(tok, d) ==
    LET v == IF tok = "" THEN Whole(d) ELSE Number(tok)
    IN  IF Truthy(v) THEN v ELSE Whole(d)

parseArgs(a) ==
    [ urls        |-> a.urls,
      concurrency |-> IF a.concurrency = "absent" THEN Whole(DefaultConcurrency)
                      ELSE NumberOption(a.concurrency, DefaultConcurrency),
      retries     |-> IF a.retry = "absent" THEN Whole(DefaultRetries)
                      ELSE NumberOption(a.retry, DefaultRetries),
      headers     |-> ArgHeaders(<<>>, a.flags) ]

----------------------------------------------------------------------------
(* Downloader: uniquePath                                                   *)

\* `${name} (${n})${ext}` in the output directory; n = 0 is the bare base name
Path(base, n) == [base |-> base, n |-> n]
NoPath == [base |-> "", n |-> 0]

existsSync(p) == p \in files

RECURSIVE Probe(_, _)
Probe(base, n) == IF existsSync(Path(base, n)) THEN Probe(base, n + 1) ELSE Path(base, n)

uniquePath(base) == Probe(base, 0)

----------------------------------------------------------------------------
(* Downloader: downloadOne                                                  *)

BackoffUnit == 250

\* a backoff that forgets the attempt number
BackoffFlat(attempt) == BackoffUnit

\* sleep(250 * attempt)
Backoff(attempt) == BackoffUnit * attempt

\* what one fetch can bring: a transport error, or a response with a status,
\* a declared content-type and perhaps a content-disposition file name
TextHtml == <<"t","e","x","t","/","h","t","m","l">>
ImagePng == <<"i","m","a","g","e","/","p","n","g">>
ImagePNGUpper == <<"I","m","a","g","e","/","P","N","G">>

FetchOutcomes ==
    { [throws |-> TRUE,  status |-> 0, ctype |-> <<>>] }
    \cup
    { [throws |-> FALSE, status |-> s, ctype |-> c] :
        s \in {200, 500}, c \in {TextHtml, ImagePng, ImagePNGUpper, <<>>} }

\* the content-disposition file name the upstream sends for a URL, "" for none
Disposition(url) == IF url = "/get" THEN "a.jpg" ELSE ""

\* line 103: path.basename(url.pathname) || 'file'
pickFilenameFromUrl(url) ==
    CASE url = "/a.jpg" -> "a.jpg"
      [] url = "/get"   -> "get"
      [] OTHER          -> "file"

\* Response.ok
ResponseOk(r) == r.status >= 200 /\ r.status <= 299

\* lines 138-143: the error an attempt throws before any file is touched,
\* "" when the response passes
AttemptError(r) ==
    IF r.throws THEN "TypeError: fetch failed"
    ELSE IF ~ResponseOk(r) THEN "Error: HTTP 500"
    ELSE IF ~startsWith(toLowerCase(r.ctype), ImageSlash)
         THEN "Error: Content-Type not image/*"
    ELSE ""

\* line 144: filenameFromDisposition(...) || pickFilenameFromUrl(url)
Filename(url) == IF Disposition(url) # "" THEN Disposition(url) ELSE pickFilenameFromUrl(url)

NoWorker == [pc |-> "done", i |-> 0, attempt |-> 0, lastErr |-> "null",
             outPath |-> NoPath, r |-> [ok |-> FALSE, path |-> NoPath, error |-> ""]]

\* line 136: while (attempt++ <= retries); leaving the loop is line 155
LoopTest(wk) ==
    IF IntLE(wk.attempt, opts.retries)
    THEN [wk EXCEPT !.attempt = @ + 1, !.pc = "fetch"]
    ELSE [wk EXCEPT !.attempt = @ + 1, !.pc = "returned",
                    !.r = [ok |-> FALSE, path |-> NoPath, error |-> wk.lastErr]]

\* lines 150-153: catch (err)
Catch(wk, err) ==
    LET c == [wk EXCEPT !.lastErr = err, !.outPath = NoPath]
    IN  IF IntLE(c.attempt, opts.retries) THEN [c EXCEPT !.pc = "sleep"]
        ELSE LoopTest(c)

\* lines 133-136: a fresh downloadOne call for queue item i (1-based here)
downloadOne(i) ==
    LoopTest([NoWorker EXCEPT !.pc = "new", !.i = i])

----------------------------------------------------------------------------
(* Relay: requests, upstream responses and the client response              *)

\* a string-valued parameter that may be missing
Absent == [has |-> FALSE, s |-> <<>>]
Str(t) == [has |-> TRUE, s |-> t]

\* a JSON value of the POST body, or a query value (always a string)
JAbsent == [t |-> "absent", s |-> "", b |-> FALSE]
JString(x) == [t |-> "string", s |-> x, b |-> FALSE]
JBool(x) == [t |-> "bool", s |-> "", b |-> x]

\* ToBoolean of such a value
JTruthy(v) == (v.t = "string" /\ v.s # "") \/ (v.t = "bool" /\ v.b)

\* the timeout field: missing, a string (query or JSON), or a JSON number
TNone == [t |-> "absent", s |-> "", n |-> 0]
TText(tok) == [t |-> "string", s |-> tok, n |-> 0]
TNum(k) == [t |-> "number", s |-> "", n |-> k]

\* ToBoolean of such a value
TTruthy(v) == (v.t = "string" /\ v.s # "") \/ (v.t = "number" /\ v.n # 0)

\* String(body.timeout)
ToStr(v) ==
    IF v.t = "string" THEN v.s
    ELSE CASE v.n = 0      -> "0"
           [] v.n = 999    -> "999"
           [] v.n = 5000   -> "5000"
           [] v.n = 120001 -> "120001"

\* URLSearchParams.get(name): the first value, or null
get(fields, name) ==
    IF getAll(fields, name) = <<>> THEN Absent ELSE Str(getAll(fields, name)[1])

\* more: the header-related parameters (header, cookie, auth, referer,
\* origin), in the order given
NoParams == [url |-> Absent, allowAny |-> JAbsent, timeout |-> TNone, more |-> <<>>]
NoRequest == [variant |-> "", method |-> "", json |-> "", url |-> Absent, allowAny |-> JAbsent,
              timeout |-> TNone, more |-> <<>>]

UrlHttp == <<"h","t","t","p",":","/","/","a">>
UrlHttpsMixed == <<"H","t","T","p","S",":","/","/","a">>
UrlFtp == <<"f","t","p",":","/","/","a">>
UrlOneSlash == <<"h","t","t","p",":","/","a">>
UrlNotAtStart == <<"x","h","t","t","p",":","/","/","a">>
UrlNoColon == <<"h","t","t","p","s","/","/","a">>

UrlValues == {Absent, Str(<<>>), Str(UrlHttp), Str(UrlHttpsMixed), Str(UrlFtp),
              Str(UrlOneSlash), Str(UrlNotAtStart), Str(UrlNoColon)}

\* the two relays of the repository
Variants == {"server.js", "part_000"}

\* GET /image?url=..&allowAny=.. and POST /image with a JSON body
Requests ==
    [variant : Variants, method : {"GET"}, json : {""}, url : UrlValues,
     allowAny : {JAbsent, JString("1"), JString("true"), JString("0")}, timeout : {TNone},
     more : {<<>>}]
    \cup
    [variant : Variants, method : {"POST"}, json : {"object", "malformed"}, url : UrlValues,
     allowAny : {JAbsent, JString("1"), JString("0"), JBool(TRUE), JBool(FALSE)},
     timeout : {TNone}, more : {<<>>}]

\* requests that differ in their timeout field
TimeoutRequests ==
    [variant : Variants, method : {"GET"}, json : {""}, url : {Absent, Str(UrlHttp)},
     allowAny : {JAbsent},
     timeout : {TNone, TText(""), TText("0"), TText("abc"), TText("999"), TText("5000"),
                TText("120001")},
     more : {<<>>}]
    \cup
    [variant : Variants, method : {"POST"}, json : {"object"}, url : {Absent, Str(UrlHttp)},
     allowAny : {JAbsent},
     timeout : {TNone, TNum(0), TNum(999), TNum(5000), TNum(120001), TText("abc"),
                TText("5000")},
     more : {<<>>}]

\* a JSON body holds auth, referer and origin once at most, its cookies as an
\* array, and (in the model) no headers object
BodyFields(inputs) ==
    /\ \A i \in 1..Len(inputs) : inputs[i].name # "header"
    /\ \A i, j \in 1..Len(inputs) :
          (i # j /\ inputs[i].name = inputs[j].name) => inputs[i].name = "cookie"

\* requests that differ in their header-related fields
HeaderRequests ==
    [variant : Variants, method : {"GET"}, json : {""}, url : {Str(UrlHttp)},
     allowAny : {JAbsent}, timeout : {TNone}, more : SeqsUpTo(Inputs, MaxInputs)]
    \cup
    [variant : Variants, method : {"POST"}, json : {"object"}, url : {Str(UrlHttp)},
     allowAny : {JAbsent}, timeout : {TNone},
     more : {ins \in SeqsUpTo(Inputs, MaxInputs) : BodyFields(ins)}]

\* content types
ImageJpeg == <<"i","m","a","g","e","/","j","p","e","g">>
ImageGif == <<"i","m","a","g","e","/","g","i","f">>
ImageWebp == <<"i","m","a","g","e","/","w","e","b","p">>
TextPlain == <<"t","e","x","t","/","p","l","a","i","n">>
TextPlainUpper == <<"T","e","x","t","/","P","l","a","i","n">>
Unknown == <<"u","n","k","n","o","w","n">>
OctetStream == <<"a","p","p","l","i","c","a","t","i","o","n","/",
                 "o","c","t","e","t","-","s","t","r","e","a","m">>
ApplicationJson == <<"a","p","p","l","i","c","a","t","i","o","n","/","j","s","o","n",";"," ",
                     "c","h","a","r","s","e","t","=","u","t","f","-","8">>

\* what resp.headers.get('content-type') can give, <<>> for null
ImagePngMixed == <<"i","m","a","g","e","/","P","N","G">>
DeclaredTypes == {<<>>, TextPlain, TextPlainUpper, ImagePng, ImagePngMixed, ImagePNGUpper}

\* body chunks, as bytes
JpegChunk == <<255, 216, 255, 224>>
PngChunk == <<137, 80, 78, 71, 13, 10, 26, 10>>
GifChunk == <<71, 73, 70, 56, 57, 97, 1, 0, 1, 0, 0, 0>>
GifShortChunk == <<71, 73, 70, 56, 57, 97>>
WebpChunk == <<82, 73, 70, 70, 4, 0, 0, 0, 87, 69, 66, 80>>
WaveChunk == <<82, 73, 70, 70, 4, 0, 0, 0, 87, 65, 86, 69>>
TextChunk == <<104, 105>>

FirstChunks == {JpegChunk, PngChunk, GifChunk, GifShortChunk, WebpChunk, WaveChunk, TextChunk}
LaterChunks == {TextChunk}

\* at most this many chunks in an upstream body
MaxChunks == 2

RECURSIVE Bodies(_)
Bodies(n) ==
    IF n = 0 THEN {<<>>}
    ELSE LET shorter == Bodies(n - 1)
         IN  shorter
             \cup {<<c>> : c \in FirstChunks}
             \cup {Append(b, c) : b \in {t \in shorter : Len(t) = n - 1 /\ n > 1}, c \in LaterChunks}

\* an upstream response: status, declared content-type, the chunks of the body
\* and the read that fails (0: none; k: the k-th read of the body rejects)
Responses ==
    { [status |-> st, ctype |-> c, chunks |-> b, failAt |-> f] :
        st \in {200, 404}, c \in DeclaredTypes, b \in Bodies(MaxChunks), f \in 0..(MaxChunks + 1) }

RealResponses == {r \in Responses : r.failAt <= Len(r.chunks) + 1 /\ (r.status = 404 => r.chunks = <<>> /\ r.failAt = 0)}

NoResponse == [status |-> 0, ctype |-> <<>>, chunks |-> <<>>, failAt |-> 0]

\* no header
NoHeaders == <<>>

NoJson == [ok |-> TRUE, error |-> "", type |-> <<>>, status |-> 0, detail |-> ""]
NoRes == [statusLines |-> <<>>, ctype |-> <<>>, json |-> NoJson, body |-> <<>>,
          ended |-> FALSE, destroyed |-> FALSE]

\* json(res, code, data): writeHead(code, json content-type), end(body)
json(r, code, data) ==
    [r EXCEPT !.statusLines = Append(@, code), !.ctype = ApplicationJson,
              !.json = data, !.ended = TRUE]

\* bad(res, code, message, extra)
bad(r, code, message, type, status) ==
    json(r, code, [ok |-> FALSE, error |-> message, type |-> type, status |-> status,
                   detail |-> ""])

\* bad(res, code, message, { detail: String(err) })
badDetail(r, code, message, err) ==
    json(r, code, [ok |-> FALSE, error |-> message, type |-> <<>>, status |-> 0,
                   detail |-> err])

\* a headersSent that never sees the headers
headersSentNever(r) == FALSE

\* res.headersSent
headersSent(r) == r.statusLines # <<>>

----------------------------------------------------------------------------
(* Downloader: main                                                         *)

NoHist == [claims |-> 0, fetches |-> 0, waits |-> <<>>, created |-> {}, lastFail |-> "null"]

\* one starter per queued URL, whatever --concurrency says
startersUnbounded(q) == Whole(Len(q))

\* line 184: Math.min(opts.concurrency, queue.length)
starters(q) == MathMin(opts.concurrency, Len(q))

\* bookkeeping of a worker's move, on the record of its queue item: a call
\* entering "fetch" has issued a fetch, one entering "sleep" has started its
\* backoff wait
Noted(h, wk) ==
    IF wk.pc = "fetch" THEN [h EXCEPT !.fetches = @ + 1]
    ELSE IF wk.pc = "sleep" THEN [h EXCEPT !.waits = Append(@, Backoff(wk.attempt))]
    ELSE h

Claimed(h) == [h EXCEPT !.claims = @ + 1]

\* line 162: no URL resolved
MainUsage ==
    /\ mainPc = "start"
    /\ Len(opts.urls) = 0
    /\ mainPc' = "exited"
    /\ exitCode' = 1
    /\ UNCHANGED <<argv, opts, queue, idx, active, results, workers, files, hist, faultsLeft, relayVars>>

\* lines 163-185: build the queue and call next() once per starter; each call
\* runs synchronously through idx++, active++ and downloadOne up to its first
\* await
MainStart ==
    /\ mainPc = "start"
    /\ Len(opts.urls) > 0
    /\ LET q == opts.urls
           n == ToLength(starters(q))
           ws == [w \in 1..n |-> downloadOne(w)]
       IN  /\ queue' = q
           /\ workers' = ws
           /\ idx' = n
           /\ active' = n
           /\ hist' = [i \in 1..Len(q) |->
                         IF i <= n THEN Noted(Claimed(NoHist), ws[i]) ELSE NoHist]
    /\ mainPc' = "running"
    /\ UNCHANGED <<argv, opts, results, files, faultsLeft, exitCode, relayVars>>

\* lines 138-145: the fetch settles; a failure goes to the catch block, a
\* passing response has its output path resolved (uniquePath runs to its end
\* without yielding) and the call yields at the await of line 145
FetchSettle(w, o) ==
    /\ mainPc = "running"
    /\ workers[w].pc = "fetch"
    /\ LET wk == workers[w]
           err == AttemptError(o)
           nx == IF err # "" THEN Catch(wk, err)
                 ELSE [wk EXCEPT !.pc = "resolved",
                                 !.outPath = uniquePath(Filename(queue[wk.i]))]
       IN  /\ err # "" => faultsLeft > 0
           /\ faultsLeft' = IF err # "" THEN faultsLeft - 1 ELSE faultsLeft
           /\ workers' = [workers EXCEPT ![w] = nx]
           /\ hist' = [hist EXCEPT ![wk.i] =
                         IF err # "" THEN Noted([@ EXCEPT !.lastFail = err], nx) ELSE @]
    /\ UNCHANGED <<argv, opts, queue, mainPc, idx, active, results, files, exitCode, relayVars>>

\* line 146: createWriteStream opens (creates or empties) the file; the open
\* completes after the call returned
CreateFile(w) ==
    /\ mainPc = "running"
    /\ workers[w].pc = "resolved"
    /\ files' = files \cup {workers[w].outPath}
    /\ hist' = [hist EXCEPT ![workers[w].i].created = @ \cup {workers[w].outPath}]
    /\ workers' = [workers EXCEPT ![w].pc = "writing"]
    /\ UNCHANGED <<argv, opts, queue, mainPc, idx, active, results, faultsLeft, exitCode, relayVars>>

\* lines 148-149: the body was piped to the file in full
PipelineDone(w) ==
    /\ mainPc = "running"
    /\ workers[w].pc = "writing"
    /\ workers' = [workers EXCEPT ![w].pc = "returned",
                     ![w].r = [ok |-> TRUE, path |-> workers[w].outPath, error |-> ""]]
    /\ UNCHANGED <<argv, opts, queue, mainPc, idx, active, results, files, hist, faultsLeft, exitCode, relayVars>>

\* lines 148, 150-153: the body stream fails while it is piped; pipeline
\* destroys the write stream and the file stays as it is
PipelineError(w) ==
    /\ mainPc = "running"
    /\ workers[w].pc = "writing"
    /\ faultsLeft > 0
    /\ faultsLeft' = faultsLeft - 1
    /\ LET wk == workers[w]
           err == "TypeError: terminated"
           nx == Catch(wk, err)
       IN  /\ workers' = [workers EXCEPT ![w] = nx]
           /\ hist' = [hist EXCEPT ![wk.i] = Noted([@ EXCEPT !.lastFail = err], nx)]
    /\ UNCHANGED <<argv, opts, queue, mainPc, idx, active, results, files, exitCode, relayVars>>

\* lines 152, 136: the backoff timer ends and the loop goes round
Wake(w) ==
    /\ mainPc = "running"
    /\ workers[w].pc = "sleep"
    /\ LET nx == LoopTest(workers[w])
       IN  /\ workers' = [workers EXCEPT ![w] = nx]
           /\ hist' = [hist EXCEPT ![nx.i] = IF nx.pc = "fetch" THEN Noted(@, nx) ELSE @]
    /\ UNCHANGED <<argv, opts, queue, mainPc, idx, active, results, files, faultsLeft, exitCode, relayVars>>

\* lines 174-181: downloadOne's result arrives in next(): record it, release
\* the slot and, if the queue has an unclaimed item, claim it (lines 170-174)
Finish(w) ==
    /\ mainPc = "running"
    /\ workers[w].pc = "returned"
    /\ LET wk == workers[w]
       IN  /\ results' = Append(results, [i |-> wk.i, url |-> queue[wk.i], ok |-> wk.r.ok,
                                          path |-> wk.r.path, error |-> wk.r.error])
           /\ IF idx < Len(queue)
              THEN LET nx == downloadOne(idx + 1)
                   IN  /\ idx' = idx + 1
                       /\ active' = (active - 1) + 1
                       /\ workers' = [workers EXCEPT ![w] = nx]
                       /\ hist' = [hist EXCEPT ![idx + 1] = Noted(Claimed(@), nx)]
              ELSE /\ active' = active - 1
                   /\ workers' = [workers EXCEPT ![w] = NoWorker]
                   /\ UNCHANGED <<idx, hist>>
    /\ UNCHANGED <<argv, opts, queue, mainPc, files, faultsLeft, exitCode, relayVars>>

\* lines 185-190: every starter's promise is fulfilled; tally and exit
Tally ==
    /\ mainPc = "running"
    /\ \A w \in DOMAIN workers : workers[w].pc = "done"
    /\ LET ok == Cardinality({k \in 1..Len(results) : results[k].ok})
           fail == Len(results) - ok
       IN  exitCode' = IF fail # 0 THEN 2 ELSE 0
    /\ mainPc' = "exited"
    /\ UNCHANGED <<argv, opts, queue, idx, active, results, workers, files, hist, faultsLeft, relayVars>>

\* the relay is not running
RelayIdle ==
    /\ rq = NoRequest
    /\ rpc = "idle"
    /\ sp = NoParams
    /\ timer = "unset"
    /\ fetches = 0
    /\ resp = NoResponse
    /\ reads = 0
    /\ firstChunk = <<>>
    /\ outType = <<>>
    /\ res = NoRes
    /\ timeoutMs = Whole(0)
    /\ headers = NoHeaders
    /\ reqId = 0
    /\ bytes = 0
    /\ log = <<>>

InitMain(lines, f) ==
    /\ argv \in lines
    /\ opts = parseArgs(argv)
    /\ queue = <<>>
    /\ mainPc = "start"
    /\ idx = 0
    /\ active = 0
    /\ results = <<>>
    /\ workers = <<>>
    /\ files = {}
    /\ hist = <<>>
    /\ faultsLeft = f
    /\ exitCode = -1
    /\ RelayIdle

\* the worker pool: every --concurrency, the default --retry
InitDownloader == InitMain(CommandLines(MaxUrls, ConcurrencyArgs, {"absent"}), MaxFaults)

\* the retry loop: every --retry, the default --concurrency
InitRetry == InitMain(CommandLines(RetryMaxUrls, {"absent"}, RetryArgs), RetryMaxFaults)

FetchSettles == \E w \in DOMAIN workers, o \in FetchOutcomes : FetchSettle(w, o)
CreateFiles == \E w \in DOMAIN workers : CreateFile(w)
PipelineDones == \E w \in DOMAIN workers : PipelineDone(w)
PipelineErrors == \E w \in DOMAIN workers : PipelineError(w)
Wakes == \E w \in DOMAIN workers : Wake(w)
Finishes == \E w \in DOMAIN workers : Finish(w)

NextDownloader ==
    \/ MainUsage
    \/ MainStart
    \/ FetchSettles
    \/ CreateFiles
    \/ PipelineDones
    \/ PipelineErrors
    \/ Wakes
    \/ Finishes
    \/ Tally

SpecDownloader == InitDownloader /\ [][NextDownloader]_vars

SpecRetry == InitRetry /\ [][NextDownloader]_vars

----------------------------------------------------------------------------
(* Downloader: the claims                                                   *)

\* the results recorded for queue item i
ResultsOf(i) == {k \in 1..Len(results) : results[k].i = i}

\* the downloadOne calls that have not handed their result back to next()
InFlight == {w \in DOMAIN workers : workers[w].pc # "done"}

\* C1: the number of downloadOne operations in flight is the `active` counter,
\* and whenever any is in flight that number is at most the configured
\* concurrency N: with workers asleep in their backoff as with workers that
\* pulled their next item.
C1_ActiveAtMostConcurrency ==
    /\ active = Cardinality(InFlight)
    /\ active = 0 \/ IntLE(active, opts.concurrency)

\* C1 witness: --concurrency 1 and two URLs; the one worker has pulled the
\* second item and sleeps in its backoff, and one operation is in flight.
C1_Witness ==
    /\ opts.concurrency = Whole(1)
    /\ Len(queue) = 2
    /\ idx = 2
    /\ active = 1
    /\ \E w \in DOMAIN workers : workers[w].pc = "sleep" /\ workers[w].i = 2

\* C2: a URL whose every attempt fails, under a whole number r >= 0 of
\* retries, is fetched exactly r + 1 times; the k-th failure (k <= r) is
\* followed by a wait of 250 * k ms before attempt k + 1, the last failure by
\* none, and the outcome is ok = false with the last attempt's error.
C2_RetryLoop ==
    LET r == opts.retries
        whole == ~r.nan /\ ~r.half /\ r.fl >= 0
    IN  /\ \A k \in 1..Len(results) :
            (whole /\ ~results[k].ok) =>
                LET h == hist[results[k].i]
                IN  /\ h.fetches = r.fl + 1
                    /\ h.waits = [j \in 1..r.fl |-> 250 * j]
                    /\ results[k].error = h.lastFail
        /\ \A w \in DOMAIN workers :
            LET wk == workers[w]
            IN  /\ (whole /\ wk.pc = "fetch") =>
                    /\ hist[wk.i].fetches = Len(hist[wk.i].waits) + 1
                    /\ hist[wk.i].fetches <= r.fl + 1
                /\ (whole /\ wk.pc = "sleep") =>
                    /\ hist[wk.i].fetches = Len(hist[wk.i].waits)
                    /\ hist[wk.i].fetches <= r.fl

\* C2 witness: retries = 2, every attempt failed: three fetches, waits of 250
\* and 500 ms, a recorded failure.
C2_Witness ==
    /\ opts.retries = Whole(2)
    /\ \E k \in 1..Len(results) :
        /\ ~results[k].ok
        /\ hist[results[k].i].fetches = 3
        /\ hist[results[k].i].waits = <<250, 500>>
        /\ results[k].error = "Error: HTTP 500"

\* C3: no two downloads of a run ever write to the same output path.
C3_DistinctOutputPaths ==
    \A i, j \in DOMAIN hist :
        i # j => hist[i].created \cap hist[j].created = {}

\* C4: a URL recorded as failed has left no file in the output directory when
\* the run ends, and every attempt of a URL resolves to the same path (no
\* failed attempt leaves a file behind that would push the retry to the next
\* suffix).
C4_FailureLeavesNoFile ==
    /\ mainPc = "exited" =>
        \A k \in 1..Len(results) :
            ~results[k].ok => hist[results[k].i].created \cap files = {}
    /\ \A i \in DOMAIN hist : Cardinality(hist[i].created) <= 1

\* C5: a run over a non-empty URL list ends with exactly one recorded outcome
\* per queued URL: every index claimed once, none skipped, none twice.
C5_OneOutcomePerUrl ==
    (mainPc = "exited" /\ Len(opts.urls) > 0) =>
        /\ Len(results) = Len(queue)
        /\ \A i \in 1..Len(queue) :
            /\ hist[i].claims = 1
            /\ Cardinality(ResultsOf(i)) = 1

\* C6: exit 1 before any fetch when no URL was resolved; otherwise exit 0
\* exactly when every queued URL has a recorded success, and exit 2 when some
\* URL's outcome is a failure.
C6_ExitStatus ==
    mainPc = "exited" =>
        IF Len(opts.urls) = 0
        THEN exitCode = 1 /\ hist = <<>>
        ELSE /\ exitCode = 0 <=>
                  \A i \in 1..Len(queue) : \E k \in ResultsOf(i) : results[k].ok
             /\ (\E k \in 1..Len(results) : ~results[k].ok) => exitCode = 2

----------------------------------------------------------------------------
(* Relay: proxyImage                                                        *)

\* /^https?:\/\//i.test(url)
TestHttp(url) ==
    LET l == toLowerCase(url)
    IN  /\ Len(l) >= 4
        /\ l[1] = "h" /\ l[2] = "t" /\ l[3] = "t" /\ l[4] = "p"
        /\ LET k == IF Len(l) >= 5 /\ l[5] = "s" THEN 6 ELSE 5
           IN  /\ Len(l) >= k + 2
               /\ l[k] = ":" /\ l[k + 1] = "/" /\ l[k + 2] = "/"

\* the url check without its scheme test
ValidationErrorNoScheme(url) ==
    IF ~url.has \/ url.s = <<>> THEN "missing url parameter" ELSE ""

\* the message of the 400 answer, "" when the url passes
ValidationError(url) ==
    IF ~url.has \/ url.s = <<>> THEN "missing url parameter"
    ELSE IF ~TestHttp(url.s) THEN "url must be http(s)"
    ELSE ""

\* const allowAny = sp.get('allowAny') === '1' || sp.get('allowAny') === 'true'
allowAny(params) == params.allowAny = JString("1") \/ params.allowAny = JString("true")

TimeoutDefault == 15000
TimeoutMin == 1000
TimeoutMax == 120000

\* Math.min(Math.max(Number(sp.get('timeout') || 15000), 1_000), 120_000)
EffectiveTimeout(params) ==
    LET given == IF TTruthy(params.timeout) THEN Number(params.timeout.s)
                 ELSE Whole(TimeoutDefault)
    IN  MathMin(MathMax(given, TimeoutMin), TimeoutMax)

\* pushHeader(k, v)
pushHeader(hs, k, v) ==
    IF k = <<>> THEN hs
    ELSE IF toLowerCase(k) = CookieLower THEN Set(hs, CookieName, CookieJoined(hs, v))
    ELSE Set(hs, k, v)

\* for (const h of hdrs) { idx = h.indexOf(':'); if (idx > 0) pushHeader(...) }
RECURSIVE PushEntries(_, _)
PushEntries(hs, hdrs) ==
    IF hdrs = <<>> THEN hs
    ELSE LET h == Head(hdrs)
             colon == indexOf(h, ":")
             pushed == IF colon > 0
                       THEN pushHeader(hs, trim(slice(h, 0, colon)), trim(slice(h, colon + 1, Len(h))))
                       ELSE hs
         IN  PushEntries(pushed, Tail(hdrs))

\* for (const c of sp.getAll('cookie')) pushHeader('Cookie', c)
RECURSIVE PushCookies(_, _)
PushCookies(hs, cs) ==
    IF cs = <<>> THEN hs ELSE PushCookies(pushHeader(hs, CookieName, Head(cs)), Tail(cs))

\* const x = sp.get(name); if (x) pushHeader(k, x)
PushIfGiven(hs, k, x) == IF x.has /\ x.s # <<>> THEN pushHeader(hs, k, x.s) ELSE hs

\* if (!headers[k]) headers[k] = v
Default(hs, k, v) == IF Get(hs, k) = <<>> THEN Set(hs, k, v) ELSE hs

\* parseHeadersFromQuery(sp); part_000 ends with the browser-like defaults
parseHeadersFromQuery(variant, params) ==
    LET auth == get(params.more, "auth")
        h1 == PushEntries(<<>>, getAll(params.more, "header"))
        h2 == IF auth.has /\ auth.s # <<>>
              THEN pushHeader(h1, AuthorizationName, Authorization(auth.s)) ELSE h1
        h3 == PushIfGiven(h2, RefererName, get(params.more, "referer"))
        h4 == PushIfGiven(h3, OriginName, get(params.more, "origin"))
        h5 == PushCookies(h4, getAll(params.more, "cookie"))
    IN  IF variant = "part_000"
        THEN Default(Default(h5, AcceptName, DefaultAccept), UserAgentName, DefaultUserAgent)
        ELSE h5

\* sniffImageType(buf), <<>> for null
sniffImageType(b) ==
    IF Len(b) >= 3 /\ b[1] = 255 /\ b[2] = 216 /\ b[3] = 255 THEN ImageJpeg
    ELSE IF /\ Len(b) >= 8
            /\ b[1] = 137 /\ b[2] = 80 /\ b[3] = 78 /\ b[4] = 71
            /\ b[5] = 13 /\ b[6] = 10 /\ b[7] = 26 /\ b[8] = 10 THEN ImagePng
    ELSE IF Len(b) >= 12 /\ b[1] = 71 /\ b[2] = 73 /\ b[3] = 70 /\ b[4] = 56 THEN ImageGif
    ELSE IF /\ Len(b) >= 12
            /\ b[1] = 82 /\ b[2] = 73 /\ b[3] = 70 /\ b[4] = 70
            /\ b[9] = 87 /\ b[10] = 69 /\ b[11] = 66 /\ b[12] = 80 THEN ImageWebp
    ELSE <<>>

\* a sniffed signature wins over any declared type
SniffedFirst(upstreamType, sniffed) ==
    IF sniffed # <<>> THEN sniffed ELSE upstreamType

\* let outType = upstreamType; if (!outType || !outType.startsWith('image/'))
\* { if (sniffed) outType = sniffed }
ResolveOutType(upstreamType, sniffed) ==
    IF upstreamType = <<>> \/ ~startsWith(upstreamType, ImageSlash)
    THEN IF sniffed # <<>> THEN sniffed ELSE upstreamType
    ELSE upstreamType

\* the type gate with the allowAny switch left out
RejectedAlways(any, type) == type = <<>> \/ ~startsWith(type, ImageSlash)

\* if (!allowAny && (!outType || !outType.startsWith('image/')))
Rejected(any, type) == ~any /\ (type = <<>> \/ ~startsWith(type, ImageSlash))

\* res.writeHead(200, headersOut)
writeHead(r, code, type) ==
    [r EXCEPT !.statusLines = Append(@, code), !.ctype = type]

\* headersOut['content-type']
OrOctetStream(type) == IF type = <<>> THEN OctetStream ELSE type

\* the request identifiers newReqId() may return
ReqIds == {1, 2}

\* const reqId = newReqId(); server.js has none
newReqId(variant) == IF variant = "part_000" THEN ReqIds ELSE {0}

\* a line of the log
Event(ev, id, stage, status, n) ==
    [event |-> ev, reqId |-> id, stage |-> stage, status |-> status, bytes |-> n]

\* logLine(obj); server.js has no log
logLine(variant, l, ev) == IF variant = "part_000" THEN Append(l, ev) ELSE l

\* proxyImage(req, res, sp) up to its first await
proxyImage(params) ==
    /\ sp' = params
    /\ IF ValidationError(params.url) # ""
       THEN /\ res' = bad(res, 400, ValidationError(params.url), <<>>, 0)
            /\ rpc' = "done"
            /\ UNCHANGED <<timer, fetches, timeoutMs, headers, reqId, log>>
       ELSE /\ headers' = parseHeadersFromQuery(rq.variant, params)
            /\ timeoutMs' = EffectiveTimeout(params)
            /\ \E id \in newReqId(rq.variant) :
                  /\ reqId' = id
                  /\ log' = logLine(rq.variant, log, Event("start", id, "", 0, 0))
            /\ timer' = "armed"
            /\ fetches' = fetches + 1
            /\ rpc' = "fetching"
            /\ UNCHANGED res
    /\ UNCHANGED <<rq, resp, reads, firstChunk, outType, bytes, dlVars>>

\* GET /image: proxyImage(req, res, u.searchParams)
GetImage ==
    /\ rpc = "route"
    /\ rq.method = "GET"
    /\ proxyImage([url |-> rq.url, allowAny |-> rq.allowAny, timeout |-> rq.timeout,
                   more |-> rq.more])

\* POST /image: handlePostImage starts collecting the body
PostImage ==
    /\ rpc = "route"
    /\ rq.method = "POST"
    /\ rpc' = "reading"
    /\ UNCHANGED <<rq, sp, timer, fetches, resp, reads, firstChunk, outType, res, timeoutMs, headers, reqId, bytes, log, dlVars>>

\* the search params handlePostImage builds from the parsed body
PostParams(body) ==
    [url |-> IF body.url.has /\ body.url.s # <<>> THEN body.url ELSE Absent,
     allowAny |-> IF JTruthy(body.allowAny) THEN JString("1") ELSE JAbsent,
     timeout |-> IF TTruthy(body.timeout) THEN TText(ToStr(body.timeout)) ELSE TNone,
     more |-> SelectSeq(body.more, LAMBDA f : f.name = "cookie" \/ f.v # <<>>)]

\* req 'end': parse the body ({} when it is not JSON), build sp, proxyImage
PostBodyEnd ==
    /\ rpc = "reading"
    /\ LET body == IF rq.json = "malformed"
                   THEN [url |-> Absent, allowAny |-> JAbsent, timeout |-> TNone, more |-> <<>>]
                   ELSE [url |-> rq.url, allowAny |-> rq.allowAny, timeout |-> rq.timeout,
                         more |-> rq.more]
       IN  proxyImage(PostParams(body))

\* the body is too large or the request errors: the promise rejects, and the
\* server's handler, which did not await it, answers nothing
PostBodyFail ==
    /\ rpc = "reading"
    /\ rpc' = "rejected"
    /\ UNCHANGED <<rq, sp, timer, fetches, resp, reads, firstChunk, outType, res, timeoutMs, headers, reqId, bytes, log, dlVars>>

\* setTimeout(() => controller.abort(), timeoutMs) fires during the fetch
TimerFire ==
    /\ rpc = "fetching"
    /\ timer = "armed"
    /\ timer' = "fired"
    /\ UNCHANGED <<rq, rpc, sp, fetches, resp, reads, firstChunk, outType, res, timeoutMs, headers, reqId, bytes, log, dlVars>>

\* String(err) of a rejected fetch
AbortError == "AbortError: This operation was aborted"
FetchFailed == "TypeError: fetch failed"

\* the catch of the fetch without its clearTimeout
FetchRejectNoClear ==
    /\ rpc = "fetching"
    /\ res' = badDetail(res, 502, "fetch error", IF timer = "fired" THEN AbortError ELSE FetchFailed)
    /\ rpc' = "done"
    /\ UNCHANGED <<rq, sp, timer, fetches, resp, reads, firstChunk, outType, timeoutMs, headers, reqId, bytes, log, dlVars>>

\* fetch rejects (transport failure or abort): clearTimeout, 502
FetchReject ==
    /\ rpc = "fetching"
    /\ timer' = "cleared"
    /\ res' = badDetail(res, 502, "fetch error", IF timer = "fired" THEN AbortError ELSE FetchFailed)
    /\ rpc' = "done"
    /\ log' = logLine(rq.variant, log, Event("error", reqId, "fetch", 0, 0))
    /\ UNCHANGED <<rq, sp, fetches, resp, reads, firstChunk, outType, timeoutMs, headers, reqId, bytes, dlVars>>

\* fetch resolves with response r; server.js goes on to the type gate and
\* writeHead, part_000 to the first read of the body
FetchResolve(r) ==
    /\ rpc = "fetching"
    /\ timer = "armed"
    /\ timer' = "cleared"
    /\ resp' = r
    /\ IF ~ResponseOk(r)
       THEN /\ log' = logLine(rq.variant, log, Event("upstream", reqId, "", r.status, 0))
            /\ res' = bad(res, 502, "upstream HTTP", <<>>, r.status)
            /\ rpc' = "done"
            /\ UNCHANGED outType
       ELSE IF rq.variant = "part_000"
       THEN /\ rpc' = "firstRead"
            /\ UNCHANGED <<res, outType, log>>
       ELSE LET ctype == toLowerCase(r.ctype)
            IN  /\ outType' = ctype
                /\ IF Rejected(allowAny(sp), ctype)
                   THEN /\ res' = bad(res, 415, "unsupported content-type", ctype, 0)
                        /\ rpc' = "done"
                   ELSE /\ res' = writeHead(res, 200, OrOctetStream(ctype))
                        /\ rpc' = "streaming"
                /\ UNCHANGED log
    /\ UNCHANGED <<rq, sp, fetches, reads, firstChunk, timeoutMs, headers, reqId, bytes, dlVars>>

\* what the k-th reader.read() of the upstream body gives
ReadFails(k) == resp.failAt = k
ReadDone(k) == resp.failAt # k /\ k > Len(resp.chunks)

\* part_000: await reader.read() gives the first chunk (or done); sniff,
\* resolve the type, gate, writeHead
FirstReadOk ==
    /\ rpc = "firstRead"
    /\ ~ReadFails(1)
    /\ LET chunk == IF ReadDone(1) THEN <<>> ELSE resp.chunks[1]
           upstreamType == toLowerCase(resp.ctype)
           type == ResolveOutType(upstreamType, sniffImageType(chunk))
       IN  /\ firstChunk' = chunk
           /\ outType' = type
           /\ IF Rejected(allowAny(sp), type)
              THEN /\ res' = bad(res, 415, "unsupported content-type",
                                 IF upstreamType = <<>> THEN Unknown ELSE upstreamType, 0)
                   /\ log' = logLine(rq.variant, log, Event("reject", reqId, "", 0, 0))
                   /\ rpc' = "done"
              ELSE /\ res' = writeHead(res, 200, OrOctetStream(type))
                   /\ rpc' = "first"
                   /\ UNCHANGED log
    /\ reads' = 1
    /\ UNCHANGED <<rq, sp, timer, fetches, resp, timeoutMs, headers, reqId, bytes, dlVars>>

\* part_000: the first read rejects; nothing was sent, so 500
FirstReadError ==
    /\ rpc = "firstRead"
    /\ ReadFails(1)
    /\ reads' = 1
    /\ res' = IF ~headersSent(res) THEN badDetail(res, 500, "stream setup error", "TypeError: terminated")
              ELSE [res EXCEPT !.destroyed = TRUE]
    /\ rpc' = "done"
    /\ log' = logLine(rq.variant, log, Event("error", reqId, "setup", 0, 0))
    /\ UNCHANGED <<rq, sp, timer, fetches, resp, firstChunk, outType, timeoutMs, headers, reqId, bytes, dlVars>>

\* a generator that forgets the chunk already read
StreamFirstSkipped ==
    /\ rpc = "first"
    /\ res' = res
    /\ rpc' = "streaming"
    /\ UNCHANGED <<rq, sp, timer, fetches, resp, reads, firstChunk, outType, timeoutMs, headers, reqId, bytes, log, dlVars>>

\* a generator that does not count the chunk already read
StreamFirstUncounted ==
    /\ rpc = "first"
    /\ res' = IF Len(firstChunk) > 0 THEN [res EXCEPT !.body = Append(@, firstChunk)] ELSE res
    /\ rpc' = "streaming"
    /\ UNCHANGED <<rq, sp, timer, fetches, resp, reads, firstChunk, outType, timeoutMs, headers, reqId, bytes, log, dlVars>>

\* part_000 gen(): if (firstChunk.length) yield firstChunk
StreamFirst ==
    /\ rpc = "first"
    /\ res' = IF Len(firstChunk) > 0 THEN [res EXCEPT !.body = Append(@, firstChunk)] ELSE res
    /\ rpc' = "streaming"
    /\ bytes' = bytes + Len(firstChunk)
    /\ UNCHANGED <<rq, sp, timer, fetches, resp, reads, firstChunk, outType, timeoutMs, headers, reqId, log, dlVars>>

\* the next chunk of the body is piped to the client
StreamChunk ==
    /\ rpc = "streaming"
    /\ ~ReadFails(reads + 1) /\ ~ReadDone(reads + 1)
    /\ reads' = reads + 1
    /\ res' = [res EXCEPT !.body = Append(@, resp.chunks[reads + 1])]
    /\ bytes' = IF rq.variant = "part_000" THEN bytes + Len(resp.chunks[reads + 1]) ELSE bytes
    /\ UNCHANGED <<rq, rpc, sp, timer, fetches, resp, firstChunk, outType, timeoutMs, headers, reqId, log, dlVars>>

\* the body is done: the pipe ends the response
StreamEnd ==
    /\ rpc = "streaming"
    /\ ReadDone(reads + 1)
    /\ reads' = reads + 1
    /\ res' = [res EXCEPT !.ended = TRUE]
    /\ rpc' = "done"
    /\ log' = logLine(rq.variant, log, Event("done", reqId, "", 200, bytes))
    /\ UNCHANGED <<rq, sp, timer, fetches, resp, firstChunk, outType, timeoutMs, headers, reqId, bytes, dlVars>>

\* a stream error handler that fetches again
StreamErrorRefetch ==
    /\ rpc = "streaming"
    /\ ReadFails(reads + 1)
    /\ reads' = 0
    /\ fetches' = fetches + 1
    /\ timer' = "armed"
    /\ rpc' = "fetching"
    /\ UNCHANGED <<rq, sp, resp, firstChunk, outType, res, timeoutMs, headers, reqId, bytes, log, dlVars>>

\* a read rejects after the headers went out: nodeStream 'error', res.destroy
StreamError ==
    /\ rpc = "streaming"
    /\ ReadFails(reads + 1)
    /\ reads' = reads + 1
    /\ res' = IF ~headersSent(res) THEN badDetail(res, 500, "stream error", "TypeError: terminated")
              ELSE [res EXCEPT !.destroyed = TRUE]
    /\ rpc' = "destroyed"
    /\ log' = logLine(rq.variant, log, Event("error", reqId, "stream", 0, 0))
    /\ UNCHANGED <<rq, sp, timer, fetches, resp, firstChunk, outType, timeoutMs, headers, reqId, bytes, dlVars>>

\* the downloader is not running
DownloaderIdle ==
    /\ argv = [urls |-> <<>>, concurrency |-> "absent", retry |-> "absent", flags |-> <<>>]
    /\ opts = parseArgs(argv)
    /\ queue = <<>>
    /\ mainPc = "idle"
    /\ idx = 0
    /\ active = 0
    /\ results = <<>>
    /\ workers = <<>>
    /\ files = {}
    /\ hist = <<>>
    /\ faultsLeft = 0
    /\ exitCode = -1

\* one request arrives at /image
InitRelay ==
    /\ rq \in Requests
    /\ rpc = "route"
    /\ sp = NoParams
    /\ timer = "unset"
    /\ fetches = 0
    /\ resp = NoResponse
    /\ reads = 0
    /\ firstChunk = <<>>
    /\ outType = <<>>
    /\ res = NoRes
    /\ timeoutMs = Whole(0)
    /\ headers = NoHeaders
    /\ reqId = 0
    /\ bytes = 0
    /\ log = <<>>
    /\ DownloaderIdle

FetchResolves == \E r \in RealResponses : FetchResolve(r)

NextRelay ==
    \/ GetImage
    \/ PostImage
    \/ PostBodyEnd
    \/ PostBodyFail
    \/ TimerFire
    \/ FetchReject
    \/ FetchResolves
    \/ FirstReadOk
    \/ FirstReadError
    \/ StreamFirst
    \/ StreamChunk
    \/ StreamEnd
    \/ StreamError

SpecRelay == InitRelay /\ [][NextRelay]_vars

\* the abort of the controller rejects the pending fetch
FetchAbort ==
    /\ timer = "fired"
    /\ FetchReject

\* the relay under an upstream that may stall at any point: the steps of the
\* relay itself are taken when they can be (the routing, the timer once
\* armed, the rejection of an aborted fetch, the yield of the chunk already
\* read); the arrival of the response headers, of a chunk, of the end of the
\* body or of an upstream error is never forced
SpecRelayFair ==
    /\ InitRelay
    /\ [][NextRelay]_vars
    /\ WF_vars(GetImage)
    /\ WF_vars(PostImage)
    /\ WF_vars(TimerFire)
    /\ WF_vars(FetchAbort)
    /\ WF_vars(StreamFirst)

\* one request arrives at /image, with a timeout field
InitTimeout ==
    /\ rq \in TimeoutRequests
    /\ rpc = "route"
    /\ sp = NoParams
    /\ timer = "unset"
    /\ fetches = 0
    /\ resp = NoResponse
    /\ reads = 0
    /\ firstChunk = <<>>
    /\ outType = <<>>
    /\ res = NoRes
    /\ timeoutMs = Whole(0)
    /\ headers = NoHeaders
    /\ reqId = 0
    /\ bytes = 0
    /\ log = <<>>
    /\ DownloaderIdle

SpecTimeout == InitTimeout /\ [][NextRelay]_vars

\* a request with header-related fields arrives at /image
InitRelayHeaders ==
    /\ rq \in HeaderRequests
    /\ rpc = "route"
    /\ sp = NoParams
    /\ timer = "unset"
    /\ fetches = 0
    /\ resp = NoResponse
    /\ reads = 0
    /\ firstChunk = <<>>
    /\ outType = <<>>
    /\ res = NoRes
    /\ timeoutMs = Whole(0)
    /\ headers = NoHeaders
    /\ reqId = 0
    /\ bytes = 0
    /\ log = <<>>
    /\ DownloaderIdle

\* the command lines with header-related flags, with one URL or none
HeaderCommandLines ==
    [urls : UrlLists(1), concurrency : {"absent"}, retry : {"absent"},
     flags : {Flags(ins) : ins \in SeqsUpTo(Inputs, MaxInputs)}]

\* the header builders: either a relay request or a downloader run, with
\* header-related inputs
InitHeaders ==
    \/ InitRelayHeaders
    \/ InitMain(HeaderCommandLines, MaxFaults)

\* the request up to the issue of its fetch; the whole downloader run
NextHeaders ==
    \/ GetImage
    \/ PostImage
    \/ PostBodyEnd
    \/ PostBodyFail
    \/ MainUsage
    \/ MainStart
    \/ FetchSettles
    \/ CreateFiles
    \/ PipelineDones
    \/ PipelineErrors
    \/ Wakes
    \/ Finishes
    \/ Tally

SpecHeaders == InitHeaders /\ [][NextHeaders]_vars

----------------------------------------------------------------------------
(* Relay: the claims                                                        *)

\* the url the client supplied: the query's, or the JSON body's
RequestUrl == IF rq.method = "POST" /\ rq.json = "malformed" THEN Absent ELSE rq.url

SchemeHttp == <<"h","t","t","p",":","/","/">>
SchemeHttps == <<"h","t","t","p","s",":","/","/">>

\* absent, empty, or not beginning with http:// or https:// in any letter case
UrlInvalid(u) ==
    \/ ~u.has
    \/ u.s = <<>>
    \/ ~(startsWith(toLowerCase(u.s), SchemeHttp) \/ startsWith(toLowerCase(u.s), SchemeHttps))

\* proxyImage has been entered for the request
Handled == rpc \notin {"idle", "route", "reading", "rejected"}

\* C7: a GET or POST /image request whose url is absent, empty or not
\* http(s):// never causes an upstream fetch and never arms the timer, and
\* once proxyImage has handled it the response is a finished 400 with a JSON
\* error body
C7_InvalidUrlRejected ==
    (rpc # "idle" /\ UrlInvalid(RequestUrl)) =>
        /\ fetches = 0
        /\ timer = "unset"
        /\ Handled =>
              /\ rpc = "done"
              /\ res.statusLines = <<400>>
              /\ res.ctype = ApplicationJson
              /\ ~res.json.ok /\ res.json.error # ""
              /\ res.body = <<>>
              /\ res.ended

C7_Witness ==
    /\ rq.method = "POST" /\ rq.json = "object" /\ rq.url = Str(UrlFtp)
    /\ rpc = "done"
    /\ res.statusLines = <<400>> /\ res.json.error = "url must be http(s)"
    /\ fetches = 0

\* chunk holds the signature at offset (0-based)
BytesAt(chunk, offset, signature) ==
    /\ Len(chunk) >= offset + Len(signature)
    /\ \A k \in 1..Len(signature) : chunk[offset + k] = signature[k]

\* the image type whose signature the chunk begins with, <<>> for none
SignatureType(chunk) ==
    IF BytesAt(chunk, 0, <<255, 216, 255>>) THEN ImageJpeg
    ELSE IF BytesAt(chunk, 0, <<137, 80, 78, 71, 13, 10, 26, 10>>) THEN ImagePng
    ELSE IF BytesAt(chunk, 0, <<71, 73, 70, 56>>) THEN ImageGif
    ELSE IF BytesAt(chunk, 0, <<82, 73, 70, 70>>) /\ BytesAt(chunk, 8, <<87, 69, 66, 80>>)
         THEN ImageWebp
    ELSE <<>>

\* the first chunk of the upstream body, <<>> for an empty body
UpstreamFirstChunk == IF resp.chunks = <<>> THEN <<>> ELSE resp.chunks[1]

\* the declared content-type is image/* (media types are case-insensitive)
DeclaredImage == startsWith(toLowerCase(resp.ctype), ImageSlash)

\* the upstream answered 2xx, its first chunk could be read, and the relay has
\* decided what to answer
Decided ==
    /\ rpc \in {"first", "streaming", "done", "destroyed"}
    /\ ResponseOk(resp)
    /\ resp.failAt # 1

\* C8: when the upstream answers 2xx, the declared content-type is missing or
\* not image/*, the first chunk begins with a JPEG, PNG, GIF or WEBP
\* signature and allowAny is unset, the answer is 200 with the sniffed type
\* as content-type
C8_SniffOverride ==
    (/\ Decided
     /\ ~DeclaredImage
     /\ SignatureType(UpstreamFirstChunk) # <<>>
     /\ sp.allowAny = JAbsent) =>
        /\ res.statusLines = <<200>>
        /\ res.ctype = SignatureType(UpstreamFirstChunk)

\* C9 as stated: when the declared content-type starts with image/, the
\* answer is 200 and its content-type equals the declared type, whatever the
\* first chunk is
C9_DeclaredTypeVerbatim ==
    (Decided /\ DeclaredImage) =>
        /\ res.statusLines = <<200>>
        /\ res.ctype = resp.ctype

\* C9: when the declared content-type starts with image/, the answer is 200
\* and its content-type equals the declared type converted to lower case,
\* whatever the first chunk is (no signature, the same type, another type)
C9_DeclaredTypeWins ==
    (Decided /\ DeclaredImage) =>
        /\ res.statusLines = <<200>>
        /\ res.ctype = toLowerCase(resp.ctype)

C9_Witness ==
    /\ rq.variant = "part_000"
    /\ Decided
    /\ resp.ctype = ImagePng
    /\ firstChunk = JpegChunk
    /\ res.statusLines = <<200>> /\ res.ctype = ImagePng
    /\ res.body = <<JpegChunk>>

\* the type gate's case: a declared type that is not image/* and a first
\* chunk that begins with no image signature
Unresolved ==
    /\ Decided
    /\ resp.ctype # <<>>
    /\ ~DeclaredImage
    /\ SignatureType(UpstreamFirstChunk) = <<>>

IsPrefix(a, b) == Len(a) <= Len(b) /\ \A k \in 1..Len(a) : a[k] = b[k]

\* C10 as stated: in the type gate's case, without allowAny the answer is 415
\* with an error naming the declared type, no body byte and no 200 status;
\* with allowAny=1 it is 200 with the declared type as content-type and the
\* body streamed
C10_TypeGateVerbatim ==
    /\ (Unresolved /\ sp.allowAny = JAbsent) =>
          /\ res.statusLines = <<415>>
          /\ res.json.error = "unsupported content-type" /\ res.json.type = resp.ctype
          /\ res.body = <<>>
    /\ (Unresolved /\ sp.allowAny = JString("1")) =>
          /\ res.statusLines = <<200>>
          /\ res.ctype = resp.ctype
          /\ IsPrefix(res.body, resp.chunks)
          /\ res.ended => res.body = resp.chunks

\* C10: in the type gate's case, without allowAny the answer is 415 with an
\* error naming the declared type in lower case, no body byte and no 200
\* status; with allowAny=1 it is 200 with the declared type in lower case as
\* content-type and the body streamed
C10_TypeGate ==
    /\ (Unresolved /\ sp.allowAny = JAbsent) =>
          /\ res.statusLines = <<415>>
          /\ ~res.json.ok
          /\ res.json.error = "unsupported content-type"
          /\ res.json.type = toLowerCase(resp.ctype)
          /\ res.body = <<>>
          /\ rpc = "done" /\ res.ended
    /\ (Unresolved /\ sp.allowAny = JString("1")) =>
          /\ res.statusLines = <<200>>
          /\ res.ctype = toLowerCase(resp.ctype)
          /\ IsPrefix(res.body, resp.chunks)
          /\ res.ended => res.body = resp.chunks

C10_Witness ==
    /\ rq.allowAny = JAbsent
    /\ resp.status = 200 /\ resp.ctype = TextPlain /\ resp.chunks = <<TextChunk>>
    /\ rpc = "done"
    /\ res.statusLines = <<415>> /\ res.json.type = TextPlain

C10_WitnessAllowAny ==
    /\ sp.allowAny = JString("1")
    /\ resp.status = 200 /\ resp.ctype = TextPlain
    /\ rpc = "done" /\ res.ended
    /\ res.statusLines = <<200>> /\ res.ctype = TextPlain
    /\ res.body = <<TextChunk, TextChunk>>

\* the timeout a timeout parameter stands for: its value clamped to
\* [1000, 120000] when it is a number, 15000 otherwise
ClaimedTimeout(v) ==
    LET numeric == v.t = "string" /\ v.s \in {"0", "999", "5000", "120001"}
        n == Number(v.s).fl
    IN  IF ~numeric THEN 15000
        ELSE IF n < 1000 THEN 1000
        ELSE IF n > 120000 THEN 120000
        ELSE n

\* C11: for every value of the timeout parameter the delay of the abort timer
\* lies in [1000, 120000]: a numeric value clamped to that range, 15000 for
\* an absent or non-numeric one
C11_TimeoutInRange ==
    fetches > 0 =>
        /\ ~timeoutMs.nan /\ ~timeoutMs.half
        /\ timeoutMs.fl >= 1000 /\ timeoutMs.fl <= 120000
        /\ timeoutMs.fl = ClaimedTimeout(sp.timeout)

\* the request has left the fetch stage
PastFetch == fetches > 0 /\ rpc # "fetching"

\* C12, in every state: a rejected fetch (transport failure or abort) is
\* answered 502 'fetch error' and a non-2xx upstream status 502 with the
\* upstream status in the message, in both cases with no 200 status line and
\* no body byte, and the timer is cleared once the fetch stage is left
C12_FailureIs502 ==
    /\ PastFetch => timer = "cleared"
    /\ (PastFetch /\ resp = NoResponse) =>
          /\ rpc = "done" /\ res.ended
          /\ res.statusLines = <<502>>
          /\ ~res.json.ok /\ res.json.error = "fetch error"
          /\ res.body = <<>>
    /\ (PastFetch /\ resp # NoResponse /\ ~(resp.status >= 200 /\ resp.status <= 299)) =>
          /\ rpc = "done" /\ res.ended
          /\ res.statusLines = <<502>>
          /\ ~res.json.ok /\ res.json.error = "upstream HTTP" /\ res.json.status = resp.status
          /\ res.body = <<>>

\* C12, in every step: once the timer has fired with the fetch incomplete,
\* the request can only go on to the 502 'fetch error' answer
C12_AbortIs502 ==
    timer = "fired" =>
        /\ rpc = "fetching"
        /\ rpc' = "done"
        /\ res'.statusLines = <<502>> /\ res'.json.error = "fetch error"
        /\ res'.json.detail = AbortError
        /\ timer' = "cleared"

\* C12: timeout aborts, transport failures and non-2xx upstream statuses are
\* all answered 502 (never with the upstream status), with no 200 status line
\* and no body byte, and the timer is cleared on every path out of the fetch
\* stage
C12_TimeoutAndFailureMapping == []C12_FailureIs502 /\ [][C12_AbortIs502]_vars

C12_Witness ==
    /\ rpc = "done"
    /\ res.statusLines = <<502>> /\ res.json.detail = AbortError
    /\ timer = "cleared"

\* C13: a request causes at most one upstream fetch: exactly one once
\* proxyImage has handled a request whose url is valid, none for any other,
\* whatever the outcome (transport error, abort, non-2xx, 415, stream error)
C13_SingleAttempt ==
    /\ fetches <= 1
    /\ (rpc # "idle" /\ ~Handled) => fetches = 0
    /\ Handled => fetches = IF UrlInvalid(sp.url) THEN 0 ELSE 1

C13_Witness ==
    /\ rpc = "destroyed"
    /\ res.statusLines = <<200>> /\ res.destroyed
    /\ res.body = <<JpegChunk>>
    /\ fetches = 1

\* C14: a failure of the first-chunk read, before any header was written, is
\* answered with a 500 JSON error; a read failure after the 200 headers
\* destroys the connection with no further byte and no second status line;
\* the status line is written at most once
C14_StreamFailure ==
    /\ Len(res.statusLines) <= 1
    /\ (rq.variant = "part_000" /\ ResponseOk(resp) /\ resp.failAt = 1 /\ reads >= 1) =>
          /\ rpc = "done" /\ res.ended
          /\ res.statusLines = <<500>>
          /\ res.ctype = ApplicationJson
          /\ ~res.json.ok /\ res.json.error # ""
          /\ res.body = <<>>
    /\ res.destroyed =>
          /\ rpc = "destroyed"
          /\ res.statusLines = <<200>>
          /\ ~res.ended
          /\ res.body = SubSeq(resp.chunks, 1, resp.failAt - 1)
    /\ rpc = "destroyed" => res.destroyed

C14_Witness ==
    /\ rq.variant = "part_000"
    /\ resp.failAt = 1 /\ reads = 1
    /\ res.statusLines = <<500>> /\ res.json.error = "stream setup error"

\* C15: every request is answered, and every error answer is a JSON object
\* with ok:false and an error string; a POST body that is too large or whose
\* stream errors is answered with a 500 JSON error
C15_EveryRequestAnswered ==
    /\ rpc \in {"done", "destroyed", "rejected"} => res.statusLines # <<>>
    /\ rpc = "rejected" => res.statusLines = <<500>>
    /\ (res.statusLines # <<>> /\ res.statusLines[1] >= 400) =>
          /\ res.ctype = ApplicationJson
          /\ ~res.json.ok /\ res.json.error # ""

\* the query parameters that carry the values of a JSON body: a string as it
\* is, true and false as "true" and "false", a number in decimal
SameAsQuery ==
    [url |-> rq.url,
     allowAny |-> IF rq.allowAny.t = "bool"
                  THEN JString(IF rq.allowAny.b THEN "true" ELSE "false")
                  ELSE rq.allowAny,
     timeout |-> IF rq.timeout.t = "number" THEN TText(ToStr(rq.timeout)) ELSE rq.timeout,
     more |-> rq.more]

\* C16: POST /image with the fields in a JSON body gives the same validation
\* result, allowAny decision, effective timeout and outbound headers as
\* GET /image with the same values as query parameters
C16_GetPostEquivalence ==
    (rq.method = "POST" /\ rq.json = "object" /\ Handled) =>
        /\ (ValidationError(sp.url) = "") = ~UrlInvalid(SameAsQuery.url)
        /\ allowAny(sp) = allowAny(SameAsQuery)
        /\ fetches > 0 =>
              /\ timeoutMs = EffectiveTimeout(SameAsQuery)
              /\ headers = parseHeadersFromQuery(rq.variant, SameAsQuery)

\* a header entry "Name: value" names a cookie header, in any letter case
NamesCookie(h) ==
    indexOf(h, ":") > 0 /\ toLowerCase(trim(slice(h, 0, indexOf(h, ":")))) = CookieLower

\* the cookie values a sequence of inputs supplies, in the order supplied:
\* those of its cookie inputs and of its header inputs named Cookie
RECURSIVE SuppliedCookies(_, _, _)
SuppliedCookies(fields, header, cookie) ==
    IF fields = <<>> THEN <<>>
    ELSE LET f == Head(fields)
             rest == SuppliedCookies(Tail(fields), header, cookie)
         IN  IF f.name = cookie THEN <<f.v>> \o rest
             ELSE IF f.name = header /\ NamesCookie(f.v)
                  THEN <<trim(slice(f.v, indexOf(f.v, ":") + 1, Len(f.v)))>> \o rest
             ELSE rest

\* the values joined with "; "
RECURSIVE JoinCookies(_)
JoinCookies(values) ==
    IF values = <<>> THEN <<>>
    ELSE IF Len(values) = 1 THEN values[1]
    ELSE values[1] \o <<";", " ">> \o JoinCookies(Tail(values))

\* the headers hold the supplied values in one Cookie header, or none when no
\* value was supplied
OneCookieHeader(hs, values) ==
    LET named == {i \in 1..Len(hs) : toLowerCase(hs[i].k) = CookieLower}
    IN  IF values = <<>> THEN named = {}
        ELSE /\ Cardinality(named) = 1
             /\ \A i \in named : hs[i].v = JoinCookies(values)

C17_RelayCookies ==
    rpc = "fetching" => OneCookieHeader(headers, SuppliedCookies(sp.more, "header", "cookie"))

C17_DownloaderCookies ==
    (mainPc \in {"running", "exited"} /\ Len(queue) > 0) =>
        OneCookieHeader(opts.headers, SuppliedCookies(argv.flags, "--header", "--cookie"))

\* C17: the outbound request of the relay and of the downloader carries one
\* Cookie header whose value is every supplied cookie value (cookie
\* parameters or --cookie flags, and header entries named Cookie in any
\* letter case) joined with "; " in the order supplied
C17_CookieAccumulation == C17_RelayCookies /\ C17_DownloaderCookies

\* a header entry "Name: value" names the Authorization header, in any case
NamesAuthorization(h) ==
    indexOf(h, ":") > 0
    /\ toLowerCase(trim(slice(h, 0, indexOf(h, ":")))) = toLowerCase(AuthorizationName)

\* the value begins with the letters of the prefix
Prefixed(v, prefix) ==
    Len(v) >= Len(prefix) /\ SubSeq(v, 1, Len(prefix)) = prefix

\* the Authorization header the value gives
PrefixedOnce(v) ==
    IF Prefixed(v, BearerPrefix) \/ Prefixed(v, BasicPrefix) THEN v ELSE BearerPrefix \o v

\* the headers hold the value under Authorization, and under no other
\* spelling of that name
AuthorizationIs(hs, v) ==
    /\ \E i \in 1..Len(hs) : hs[i].k = AuthorizationName /\ hs[i].v = v
    /\ \A i \in 1..Len(hs) : toLowerCase(hs[i].k) = toLowerCase(AuthorizationName) =>
          hs[i].k = AuthorizationName /\ hs[i].v = v

\* the relay: the auth parameter is the first one given
C18_RelayAuthorization ==
    rpc = "fetching" =>
        LET auths == getAll(rq.more, "auth")
        IN  (auths # <<>> /\ auths[1] # <<>>) =>
                AuthorizationIs(headers, PrefixedOnce(auths[1]))

\* the downloader: the last non-empty --auth, when no --header names
\* Authorization itself
C18_DownloaderAuthorization ==
    (mainPc \in {"running", "exited"} /\ Len(queue) > 0) =>
        LET auths == SelectSeq(getAll(argv.flags, "--auth"), LAMBDA v : v # <<>>)
            named == SelectSeq(getAll(argv.flags, "--header"), NamesAuthorization)
        IN  (auths # <<>> /\ named = <<>>) =>
                AuthorizationIs(opts.headers, PrefixedOnce(auths[Len(auths)]))

C18_WitnessRelay ==
    /\ rpc = "fetching"
    /\ getAll(rq.more, "auth") = <<<<"t">>>>
    /\ Get(headers, AuthorizationName) = BearerPrefix \o <<"t">>

\* the type gate has passed: the 200 status line is written
GatePassed == res.statusLines = <<200>> /\ rpc \in {"first", "streaming", "done", "destroyed"}

\* what the client has received is a leading part of the upstream body
DeliveredInOrder ==
    /\ Len(res.body) <= Len(resp.chunks)
    /\ res.body = SubSeq(resp.chunks, 1, Len(res.body))

\* the reads so far that gave a chunk
ChunksRead == {k \in 1..reads : ~ReadFails(k) /\ ~ReadDone(k)}

\* C19: once the type gate has passed, the chunks delivered to the client are
\* the upstream chunks in upstream order; in part_000 the chunk read before
\* the gate is delivered once and first, then every later chunk as it is
\* read; the response is ended only after the reader has reported done, with
\* the whole body delivered
C19_StreamingOrder ==
    GatePassed =>
        /\ DeliveredInOrder
        /\ rpc = "first" => res.body = <<>>
        /\ rpc # "first" => Len(res.body) = Cardinality(ChunksRead)
        /\ (rq.variant = "part_000" /\ rpc # "first" /\ Len(firstChunk) > 0) =>
              Len(res.body) > 0 /\ res.body[1] = firstChunk
        /\ res.ended => /\ res.body = resp.chunks
                        /\ ReadDone(reads)
                        /\ ~res.destroyed

\* part_000 has ended a response of two chunks, both delivered in order
C19_Witness ==
    /\ rq.variant = "part_000"
    /\ GatePassed
    /\ res.ended
    /\ Len(resp.chunks) = 2
    /\ res.body = <<firstChunk, resp.chunks[2]>>

\* the integer a --retry argument of the model writes, for those that write
\* an integer n >= 0
RetryGiven == [x \in {"0", "1"} |-> IF x = "0" THEN 0 ELSE 1]

\* C20: with --retry n, n an integer >= 0, a URL whose every attempt failed
\* has been fetched n + 1 times; with --retry 0 that is one fetch and no
\* backoff wait
C20_RetryMapping ==
    argv.retry \in DOMAIN RetryGiven =>
        \A k \in 1..Len(results) :
            ~results[k].ok =>
                /\ hist[results[k].i].fetches = RetryGiven[argv.retry] + 1
                /\ argv.retry = "0" => hist[results[k].i].waits = <<>>

\* the same for --retry 1 alone
C20_RetryOne ==
    argv.retry = "1" =>
        \A k \in 1..Len(results) :
            ~results[k].ok => hist[results[k].i].fetches = 2

\* the request is finished: the response is ended or the connection destroyed
Finished == res.ended \/ res.destroyed

\* C21: every /image request whose fetch was issued eventually finishes, also
\* when the upstream stops making progress, before its response headers or
\* in the middle of the body
C21_FinishesUnderStall == (rpc = "fetching") ~> Finished

\* a stall before the response headers is ended by the timer
C21_FetchIsBounded == (rpc = "fetching") ~> (rpc # "fetching")

\* a headers object as a mapping: the set of its entries
Mapping(hs) == {hs[i] : i \in 1..Len(hs)}

\* the headers without the defaults the relay of part_000 adds
WithoutDefaults(hs) ==
    SelectSeq(hs, LAMBDA e : ~(\/ e.k = AcceptName /\ e.v = DefaultAccept
                               \/ e.k = UserAgentName /\ e.v = DefaultUserAgent))

\* the input a flag supplies
InputName(flag) ==
    CASE flag = "--header"  -> "header"
      [] flag = "--cookie"  -> "cookie"
      [] flag = "--auth"    -> "auth"
      [] flag = "--referer" -> "referer"
      [] flag = "--origin"  -> "origin"

\* the inputs a sequence of flags supplies, in the same order
InputsOf(flags) == [i \in 1..Len(flags) |-> [name |-> InputName(flags[i].name), v |-> flags[i].v]]

\* the relay's headers are those parseArgs builds from the same inputs
C22_RelayAsDownloader ==
    rpc = "fetching" =>
        Mapping(WithoutDefaults(headers)) = Mapping(ArgHeaders(<<>>, Flags(sp.more)))

\* the downloader's headers are those parseHeadersFromQuery builds from the
\* same inputs
C22_DownloaderAsRelay ==
    (mainPc \in {"running", "exited"} /\ Len(queue) > 0) =>
        \A variant \in Variants :
            Mapping(opts.headers) =
                Mapping(WithoutDefaults(parseHeadersFromQuery(variant, [more |-> InputsOf(argv.flags)])))

\* C22: for every sequence of header, cookie, auth, referer and origin
\* inputs, parseArgs of the downloader and parseHeadersFromQuery of the relay
\* build the same header mapping, the relay's default Accept and User-Agent
\* left aside
C22_HeaderBuilderParity == C22_RelayAsDownloader /\ C22_DownloaderAsRelay

\* the inputs on which the two builders are bound to agree: no header entry
\* names Cookie or Authorization, and auth is given once at most
PlainInputs(inputs) ==
    /\ \A i \in 1..Len(inputs) :
          inputs[i].name = "header" => ~NamesCookie(inputs[i].v) /\ ~NamesAuthorization(inputs[i].v)
    /\ Len(getAll(inputs, "auth")) <= 1

\* parity on the plain inputs
C22_ParityOnPlainInputs ==
    /\ (rpc = "fetching" /\ PlainInputs(sp.more)) => C22_RelayAsDownloader
    /\ PlainInputs(InputsOf(argv.flags)) => C22_DownloaderAsRelay

\* what server.js gives the client for a resolved fetch: the status check,
\* the gate on the declared type, then the 200 head and the chunks up to the
\* end of the body or to the read that fails
ServerJsReply(params, r) ==
    IF ~ResponseOk(r) THEN bad(NoRes, 502, "upstream HTTP", <<>>, r.status)
    ELSE LET ctype == toLowerCase(r.ctype)
             sent == IF r.failAt = 0 THEN r.chunks ELSE SubSeq(r.chunks, 1, r.failAt - 1)
         IN  IF Rejected(allowAny(params), ctype)
             THEN bad(NoRes, 415, "unsupported content-type", ctype, 0)
             ELSE [writeHead(NoRes, 200, OrOctetStream(ctype)) EXCEPT
                      !.body = sent, !.ended = (r.failAt = 0), !.destroyed = (r.failAt # 0)]

\* the request is over, after a fetch that resolved
AnsweredUpstream == rpc \in {"done", "destroyed"} /\ resp # NoResponse

\* what the client was given: status, content-type, body (the JSON of an
\* error, its detail text left aside, or the chunks) and the way it ended
Given(r) == [r EXCEPT !.json.detail = ""]

\* C23: for every request and every upstream behaviour (status, declared
\* content-type, first chunk, stream error) server.js and part_000 give the
\* client the same status code, content-type and body: every reply of either
\* relay is the one server.js gives
C23_VariantEquivalence == AnsweredUpstream => Given(res) = ServerJsReply(sp, resp)

\* server.js itself replies so
C23_ServerJsReplies ==
    (AnsweredUpstream /\ rq.variant = "server.js") => Given(res) = ServerJsReply(sp, resp)

\* the two relays agree on the status code where the upstream declares an
\* image type and no read fails
C23_AgreeOnDeclaredImages ==
    (AnsweredUpstream /\ resp.failAt = 0 /\ startsWith(toLowerCase(resp.ctype), ImageSlash)) =>
        Given(res) = ServerJsReply(sp, resp)

\* the lines of the log with one of the events
Lines(events) == {i \in 1..Len(log) : log[i].event \in events}

\* the number of bytes in a sequence of chunks
RECURSIVE TotalLength(_)
TotalLength(chunks) ==
    IF chunks = <<>> THEN 0 ELSE Len(Head(chunks)) + TotalLength(Tail(chunks))

====
